---------------------------- MODULE Spec2Model ----------------------------
(***************************************************************************)
(* Model of the inventory reconciliation pipeline of                       *)
(* secure-bin-cycle-count.                                                 *)
(*                                                                         *)
(* The functions of src/data-schema.js (validateInventoryRow,              *)
(* deduplicateRows, calculateVarianceStats, calculateSessionMetrics,       *)
(* formatDuration and the computed variance of the CountActions schema)    *)
(* are pure.  Each one is an operator computed the way the JavaScript      *)
(* computes it, and each has a specification whose initial states draw an  *)
(* argument from a bounded set and whose single action performs the call   *)
(* and stores what it returned.                                            *)
(*                                                                         *)
(* The session manager, the count recorder and the audit logger are not    *)
(* part of src/; their operations are modelled from sections 4.3, 4.4 and  *)
(* 4.6 of spec.md over the tables the schemas of src/data-schema.js        *)
(* declare, in the specification Spec.                                     *)
(*                                                                         *)
(* JavaScript strings are sequences of one-character strings, so that      *)
(* template literals, parseInt, the regular expression and toFixed work on *)
(* characters.  JavaScript values are records tagged by field k.           *)
(***************************************************************************)
EXTENDS Integers, Sequences, FiniteSets

VARIABLES
    call,          \* the function that has been called, "none" before the call
    args,          \* the arguments of the call
    result,        \* what the call returned, NoResult before the call
    sessions,      \* the CountSessions table: the sessions in order of creation
    actionsTable,  \* the CountActions table: the effective count actions
    auditLog,      \* the AuditLog table: the entries in order of creation
    clock          \* the clock, in milliseconds

\* the tables and the clock of the reconciliation pipeline
pipeline == <<sessions, actionsTable, auditLog, clock>>

vars == <<call, args, result, sessions, actionsTable, auditLog, clock>>

\* the pipeline before anything was imported, opened or logged
PipelineEmpty ==
    /\ sessions = <<>>
    /\ actionsTable = <<>>
    /\ auditLog = <<>>
    /\ clock = 0

NoResult == [k |-> "none"]

-----------------------------------------------------------------------------
(* JavaScript values                                                       *)

Undefined == [k |-> "undefined"]
Null      == [k |-> "null"]
NaN       == [k |-> "NaN"]
Infinity  == [k |-> "Infinity"]
\* a string, as the sequence of its characters
Str(s)    == [k |-> "string", s |-> s]
\* an integral number
Num(i)    == [k |-> "int", i |-> i]
\* the non-integral number t / 10 (t is not a multiple of 10)
Dec(t)    == [k |-> "dec", t |-> t]

Abs(i) == IF i < 0 THEN -i ELSE i

DigitChars == <<"0", "1", "2", "3", "4", "5", "6", "7", "8", "9">>

IsDigit(c) == \E d \in 1..10 : DigitChars[d] = c

\* the decimal numeral of a natural number
RECURSIVE NatToString(_)
NatToString(n) ==
    IF n < 10 THEN <<DigitChars[n + 1]>>
    ELSE NatToString(n \div 10) \o <<DigitChars[(n % 10) + 1]>>

\* ToString, as a template literal or String(v) applies it
ToString(v) ==
    CASE v.k = "string"    -> v.s
      [] v.k = "int"       -> (IF v.i < 0 THEN <<"-">> ELSE <<>>) \o NatToString(Abs(v.i))
      [] v.k = "dec"       -> (IF v.t < 0 THEN <<"-">> ELSE <<>>)
                                \o NatToString(Abs(v.t) \div 10)
                                \o <<".">> \o NatToString(Abs(v.t) % 10)
      [] v.k = "undefined" -> <<"u", "n", "d", "e", "f", "i", "n", "e", "d">>
      [] v.k = "null"      -> <<"n", "u", "l", "l">>
      [] v.k = "NaN"       -> <<"N", "a", "N">>
      [] v.k = "Infinity"  -> <<"I", "n", "f", "i", "n", "i", "t", "y">>

\* ToBoolean: what `if (v)`, `!v` and `a && b` test
ToBoolean(v) ==
    CASE v.k = "string" -> Len(v.s) > 0
      [] v.k = "int"    -> v.i # 0
      [] v.k = "dec"    -> TRUE
      [] v.k = "Infinity" -> TRUE
      [] OTHER          -> FALSE

IsWhiteSpace(c) == c \in {" ", "\t", "\n"}

RECURSIVE TrimStart(_)
TrimStart(s) ==
    IF Len(s) > 0 /\ IsWhiteSpace(Head(s)) THEN TrimStart(Tail(s)) ELSE s

HexChars == <<"0", "1", "2", "3", "4", "5", "6", "7", "8", "9",
              "a", "b", "c", "d", "e", "f">>
HexUpper == <<"0", "1", "2", "3", "4", "5", "6", "7", "8", "9",
              "A", "B", "C", "D", "E", "F">>

\* the value of c as a digit of the radix, or -1
DigitValue(c, radix) ==
    LET hits == {d \in 1..radix : HexChars[d] = c \/ HexUpper[d] = c}
    IN  IF hits = {} THEN -1 ELSE (CHOOSE d \in hits : TRUE) - 1

\* the longest prefix of s made of digits of the radix, as a number,
\* continuing from acc; n counts the digits consumed
RECURSIVE ParseDigits(_, _, _, _)
ParseDigits(s, radix, acc, n) ==
    IF Len(s) > 0 /\ DigitValue(Head(s), radix) >= 0
    THEN ParseDigits(Tail(s), radix, acc * radix + DigitValue(Head(s), radix), n + 1)
    ELSE <<acc, n>>

\* parseInt(v) without a radix: leading white space is skipped, a sign is
\* read, "0x" selects radix 16, the longest run of digits is converted and
\* whatever follows is ignored; NaN when there is no digit
parseInt(v) ==
    LET s0   == TrimStart(ToString(v))
        neg  == Len(s0) > 0 /\ Head(s0) = "-"
        s1   == IF Len(s0) > 0 /\ Head(s0) \in {"-", "+"} THEN Tail(s0) ELSE s0
        hex  == Len(s1) >= 2 /\ s1[1] = "0" /\ s1[2] \in {"x", "X"}
        s2   == IF hex THEN Tail(Tail(s1)) ELSE s1
        p    == ParseDigits(s2, IF hex THEN 16 ELSE 10, 0, 0)
    IN  IF p[2] = 0 THEN NaN
        ELSE Num(IF neg THEN -p[1] ELSE p[1])

\* isNaN on a number
isNaN(v) == v.k = "NaN"

-----------------------------------------------------------------------------
(* validateInventoryRow                                                    *)

required == <<"Location", "Bin", "PalletID", "ItemNumber", "SystemQuantity">>

Columns == {required[i] : i \in 1..Len(required)} \cup {"ExpiryDate"}

\* /^\d{4}-\d{2}-\d{2}$/.test(v)
ExpiryDateRegexTest(v) ==
    LET s == ToString(v)
    IN  /\ Len(s) = 10
        /\ \A i \in {1, 2, 3, 4, 6, 7, 9, 10} : IsDigit(s[i])
        /\ s[5] = "-"
        /\ s[8] = "-"

MissingError(col) == [text |-> "Missing required column: ", col |-> col]
QuantityError(v)  == [text |-> "SystemQuantity must be a number, got: ", got |-> ToString(v)]
ExpiryError(v)    == [text |-> "ExpiryDate must be YYYY-MM-DD format, got: ", got |-> ToString(v)]

\* the test of the required.forEach callback
IsMissing(row, col) == ~ToBoolean(row[col])

\* the condition of the SystemQuantity type check
QuantityRejected(row) ==
    ToBoolean(row["SystemQuantity"]) /\ isNaN(parseInt(row["SystemQuantity"]))

\* a row maps each column to its cell; a column the row does not have is Undefined
validateInventoryRow(row) ==
    LET missing == SelectSeq(required, LAMBDA col : IsMissing(row, col))
        e1 == [i \in 1..Len(missing) |-> MissingError(missing[i])]
        e2 == IF QuantityRejected(row)
              THEN Append(e1, QuantityError(row["SystemQuantity"]))
              ELSE e1
        errors == IF ToBoolean(row["ExpiryDate"]) /\ ~ExpiryDateRegexTest(row["ExpiryDate"])
                  THEN Append(e2, ExpiryError(row["ExpiryDate"]))
                  ELSE e2
    IN  [isValid |-> Len(errors) = 0, errors |-> errors]

-----------------------------------------------------------------------------
(* The rows validateInventoryRow is called with                            *)

MaxCellLen == 3

CellAlphabet == {"0", "1", "a", "x", "-", " "}

RECURSIVE StringsUpTo(_, _)
StringsUpTo(alphabet, n) ==
    IF n = 0 THEN {<<>>}
    ELSE LET shorter == StringsUpTo(alphabet, n - 1)
         IN  shorter \cup {Append(s, c) : s \in {t \in shorter : Len(t) = n - 1}, c \in alphabet}

\* spreadsheet cells: a string, a number, or no cell
QuantityTexts == {Str(s) : s \in StringsUpTo(CellAlphabet, MaxCellLen)}
QuantityNumbers == {Num(0), Num(1), Num(50), Num(-5), Dec(35), Dec(5), Dec(-5)}
FewQuantities == {Undefined, Num(0), Num(50), Dec(35), Str(<<"0">>), Str(<<"1", "a">>),
                  Str(<<"a">>), Str(<<>>)}

TextCell == Str(<<"A">>)
OtherCells == {Undefined, TextCell}
BinCells == {Undefined, TextCell, Num(0), Str(<<>>)}
ExpiryCells == {Undefined,
                Str(<<"2", "0", "2", "6", "-", "1", "2", "-", "3", "1">>),
                Str(<<"3", "1", "/", "1", "2", "/", "2", "0", "2", "6">>)}

MakeRow(loc, bin, pal, item, qty, exp) ==
    [c \in Columns |->
        CASE c = "Location"       -> loc
          [] c = "Bin"            -> bin
          [] c = "PalletID"       -> pal
          [] c = "ItemNumber"     -> item
          [] c = "SystemQuantity" -> qty
          [] c = "ExpiryDate"     -> exp]

\* every pattern of present and absent columns, with a few quantities; and
\* every quantity text, in rows with the other columns present or PalletID absent
ValidateInputs ==
    {MakeRow(loc, bin, pal, item, qty, exp) :
        loc \in OtherCells, bin \in BinCells, pal \in OtherCells,
        item \in OtherCells, qty \in FewQuantities, exp \in ExpiryCells}
    \cup
    {MakeRow(TextCell, TextCell, pal, TextCell, qty, exp) :
        pal \in OtherCells, qty \in QuantityTexts \cup QuantityNumbers, exp \in ExpiryCells}

InitValidate ==
    /\ call = "none"
    /\ args \in ValidateInputs
    /\ result = NoResult
    /\ PipelineEmpty

CallValidate ==
    /\ call = "none"
    /\ call' = "validateInventoryRow"
    /\ result' = validateInventoryRow(args)
    /\ UNCHANGED <<args, pipeline>>

NextValidate == CallValidate

SpecValidate == InitValidate /\ [][NextValidate]_vars

-----------------------------------------------------------------------------
(* Claims about validateInventoryRow                                       *)

Validated == call = "validateInventoryRow"

\* a cell the row does not have, or an empty cell
CellAbsent(v) == v = Undefined \/ v = Str(<<>>)

RequiredSet == {required[i] : i \in 1..Len(required)}

AbsentColumns(row) == {c \in RequiredSet : CellAbsent(row[c])}

\* a cell holding a decimal numeral, optionally signed
IsNumeral(s) ==
    LET body == IF Len(s) > 0 /\ Head(s) = "-" THEN Tail(s) ELSE s
    IN  Len(body) > 0 /\ \A i \in 1..Len(body) : IsDigit(body[i])

\* a cell whose value is an integer: an integral number or its numeral
IntegerCell(v) == v.k = "int" \/ (v.k = "string" /\ IsNumeral(v.s))

\* a cell whose value is a non-negative integer
NonNegativeIntegerCell(v) ==
    \/ v.k = "int" /\ v.i >= 0
    \/ v.k = "string" /\ IsNumeral(v.s) /\ Head(v.s) # "-"

ExpiryAcceptable(row) ==
    CellAbsent(row["ExpiryDate"]) \/ ExpiryDateRegexTest(row["ExpiryDate"])

\* how many times e occurs in the sequence
Occurrences(seq, e) == Cardinality({i \in 1..Len(seq) : seq[i] = e})

\* C1: a row with all five required columns present and a non-negative
\* integer SystemQuantity (and no malformed ExpiryDate) is valid and has no
\* errors.  The code reports the quantity 0 as a missing column.
C1_ValidRowAccepted ==
    ( /\ Validated
      /\ \A c \in RequiredSet \ {"SystemQuantity"} : args[c] = TextCell
      /\ NonNegativeIntegerCell(args["SystemQuantity"])
      /\ ExpiryAcceptable(args) )
    => (result.isValid /\ result.errors = <<>>)

\* C2: the errors hold exactly one "Missing required column" entry for each
\* absent required column and none for a required column that is present,
\* and a row with an absent column is invalid.  The code reports a present
\* cell holding the number 0 as missing.
C2_OneErrorPerMissingColumn ==
    Validated =>
        /\ \A c \in RequiredSet :
              Occurrences(result.errors, MissingError(c))
                  = IF c \in AbsentColumns(args) THEN 1 ELSE 0
        /\ (AbsentColumns(args) # {} => ~result.isValid)

\* C3: a row whose SystemQuantity is present and not an integer is invalid
\* and has the error "SystemQuantity must be a number, got: <value>".  The
\* code accepts whatever starts with an integer, such as 3.5 or "1a".
C3_NonIntegerQuantityRejected ==
    ( /\ Validated
      /\ ~CellAbsent(args["SystemQuantity"])
      /\ ~IntegerCell(args["SystemQuantity"]) )
    => ( /\ ~result.isValid
         /\ Occurrences(result.errors, QuantityError(args["SystemQuantity"])) = 1 )

-----------------------------------------------------------------------------
(* deduplicateRows                                                         *)

\* a key that also joins the quantity: rows of one pair get different keys
RowKeyWithQuantity(row) ==
    ToString(row["PalletID"]) \o <<"|">> \o ToString(row["Bin"])
        \o <<"|">> \o ToString(row["SystemQuantity"])

\* the template literal `${row.PalletID}|${row.Bin}`
RowKey(row) == ToString(row["PalletID"]) \o <<"|">> \o ToString(row["Bin"])

DuplicateReason == "Duplicate PalletID+Bin"

\* the row itself pushed instead of an annotated copy
NotAnnotated(row) == row

\* { ...row, reason: 'Duplicate PalletID+Bin' }: a copy of the row with the
\* property reason set
Annotated(row) ==
    [c \in DOMAIN row \cup {"reason"} |->
        IF c = "reason" THEN DuplicateReason ELSE row[c]]

\* the filter callback applied to rows[i..]; seen holds the keys of the Map
\* (its values are never read)
RECURSIVE FilterFrom(_, _, _, _, _)
FilterFrom(rows, i, seen, unique, duplicates) ==
    IF i > Len(rows)
    THEN [unique |-> unique, duplicates |-> duplicates]
    ELSE LET row == rows[i]
             key == RowKey(row)
         IN  IF key \in seen
             THEN FilterFrom(rows, i + 1, seen, unique,
                             Append(duplicates, Annotated(row)))
             ELSE FilterFrom(rows, i + 1, seen \cup {key},
                             Append(unique, row), duplicates)

deduplicateRows(rows) ==
    LET f == FilterFrom(rows, 1, {}, <<>>, <<>>)
    IN  [unique |-> f.unique,
         duplicates |-> f.duplicates,
         deduplicationCount |-> Len(f.duplicates)]

(* The rows deduplicateRows is called with                                 *)

MaxRows == 3

PalletCells == {Str(<<"A">>), Str(<<"A", "|", "B">>)}
DedupBinCells == {Str(<<"C">>), Str(<<"B", "|", "C">>), Num(1), Str(<<"1">>)}
DedupQuantityCells == {Num(50), Num(75)}

DedupRows ==
    {[c \in {"PalletID", "Bin", "SystemQuantity"} |->
        CASE c = "PalletID" -> pal
          [] c = "Bin" -> bin
          [] c = "SystemQuantity" -> qty] :
        pal \in PalletCells, bin \in DedupBinCells, qty \in DedupQuantityCells}

DedupInputs == UNION {[1..n -> DedupRows] : n \in 0..MaxRows}

InitDedup ==
    /\ call = "none"
    /\ args \in DedupInputs
    /\ result = NoResult
    /\ PipelineEmpty

CallDedup ==
    /\ call = "none"
    /\ call' = "deduplicateRows"
    /\ result' = deduplicateRows(args)
    /\ UNCHANGED <<args, pipeline>>

NextDedup == CallDedup

SpecDedup == InitDedup /\ [][NextDedup]_vars

(* Claims about deduplicateRows                                            *)

Deduplicated == call = "deduplicateRows"

\* two cells hold the same code: they read the same
SameCell(a, b) == ToString(a) = ToString(b)

SamePair(r1, r2) ==
    SameCell(r1["PalletID"], r2["PalletID"]) /\ SameCell(r1["Bin"], r2["Bin"])

\* rows[i] is the first row of the sequence with its (PalletID, Bin) pair
FirstOfPair(rows, i) == \A j \in 1..(i - 1) : ~SamePair(rows[j], rows[i])

\* the rows of rows[i..] that are the first of their pair, in order
RECURSIVE FirstOccurrences(_, _)
FirstOccurrences(rows, i) ==
    IF i > Len(rows) THEN <<>>
    ELSE (IF FirstOfPair(rows, i) THEN <<rows[i]>> ELSE <<>>)
            \o FirstOccurrences(rows, i + 1)

\* the rows of rows[i..] that repeat an earlier pair, in order, each with
\* the rejection reason
RECURSIVE LaterOccurrences(_, _)
LaterOccurrences(rows, i) ==
    IF i > Len(rows) THEN <<>>
    ELSE (IF FirstOfPair(rows, i) THEN <<>>
          ELSE <<[c \in DOMAIN rows[i] \cup {"reason"} |->
                    IF c = "reason" THEN "Duplicate PalletID+Bin" ELSE rows[i][c]]>>)
            \o LaterOccurrences(rows, i + 1)

\* C4: unique and duplicates together have as many rows as the input,
\* deduplicationCount is the length of duplicates, and no two rows of unique
\* have the same (PalletID, Bin) pair.
C4_DedupPartition ==
    Deduplicated =>
        /\ Len(result.unique) + Len(result.duplicates) = Len(args)
        /\ result.deduplicationCount = Len(result.duplicates)
        /\ \A i, j \in 1..Len(result.unique) :
              i < j => ~SamePair(result.unique[i], result.unique[j])

\* C4 witness: a call that rejected a row and kept at least two
C4_Witness ==
    /\ Deduplicated
    /\ Len(result.duplicates) >= 1
    /\ Len(result.unique) >= 2

\* C5: unique is exactly the rows that are the first of their (PalletID, Bin)
\* pair, in their original order, and duplicates is every other row, each
\* with reason "Duplicate PalletID+Bin".  The code compares the joined text
\* PalletID|Bin, which two different pairs can share.
C5_FirstOccurrenceWins ==
    Deduplicated =>
        /\ result.unique = FirstOccurrences(args, 1)
        /\ result.duplicates = LaterOccurrences(args, 1)

\* C6: two rows with the same PalletID and different Bins, each the first
\* row of its own pair, are both in unique.  A row can still be rejected
\* against a third row whose different pair joins to the same text (C5).
C6_SamePalletDifferentBin ==
    Deduplicated =>
        \A i, j \in 1..Len(args) :
            ( /\ i < j
              /\ SameCell(args[i]["PalletID"], args[j]["PalletID"])
              /\ ~SameCell(args[i]["Bin"], args[j]["Bin"])
              /\ FirstOfPair(args, i)
              /\ FirstOfPair(args, j) )
            => ( /\ \E u \in 1..Len(result.unique) : result.unique[u] = args[i]
                 /\ \E u \in 1..Len(result.unique) : result.unique[u] = args[j] )

-----------------------------------------------------------------------------
(* JavaScript arithmetic on the values the metrics functions meet          *)

\* ToNumber
ToNumber(v) ==
    CASE v.k = "int"  -> v
      [] v.k = "null" -> Num(0)
      [] OTHER        -> NaN

\* a + b on numbers, undefined and null
Plus(a, b) ==
    LET x == ToNumber(a)
        y == ToNumber(b)
    IN  IF x.k = "int" /\ y.k = "int" THEN Num(x.i + y.i) ELSE NaN

\* v >= 0, a comparison that NaN also fails
GreaterOrEqualZero(v) == ToNumber(v).k = "int" /\ ToNumber(v).i >= 0

\* v > 0 and v < 0: false when v converts to NaN
GreaterThanZero(v) == ToNumber(v).k = "int" /\ ToNumber(v).i > 0
LessThanZero(v)    == ToNumber(v).k = "int" /\ ToNumber(v).i < 0

\* v !== 0: strict, without conversion
StrictNotZero(v) == v # Num(0)

\* a % b of JavaScript for b > 0: the remainder has the sign of a
Rem(a, b) == IF a >= 0 THEN a % b ELSE -((-a) % b)

\* x.toFixed(2) for the hundredths h >= 0 of x: integer part, ".", two digits
FixedFromHundredths(h) ==
    NatToString(h \div 100) \o <<".">>
        \o <<DigitChars[((h \div 10) % 10) + 1], DigitChars[(h % 10) + 1]>>

\* ((a / b) * 100).toFixed(2) for integers a >= 0 and b >= 0: a / 0 is
\* Infinity, 0 / 0 is NaN, and toFixed renders them "Infinity" and "NaN";
\* otherwise the quotient times 100 is rounded to the nearest hundredth
\* (the larger one on a tie)
Percent(a, b) ==
    IF b = 0 THEN (IF a = 0 THEN ToString(NaN) ELSE ToString(Infinity))
    ELSE FixedFromHundredths((2 * 10000 * a + b) \div (2 * b))

-----------------------------------------------------------------------------
(* calculateVarianceStats                                                  *)

\* the forEach callback applied to countActions[i..], from the stats so far
RECURSIVE StatsFrom(_, _, _)
StatsFrom(countActions, i, stats) ==
    IF i > Len(countActions) THEN stats
    ELSE LET action == countActions[i]
             summed == [stats EXCEPT !.totalVariance = Plus(@, action.variance)]
         IN  StatsFrom(countActions, i + 1,
                 IF GreaterThanZero(action.variance)
                 THEN [summed EXCEPT !.positiveVariances = Append(@, action)]
                 ELSE IF LessThanZero(action.variance)
                 THEN [summed EXCEPT !.negativeVariances = Append(@, action)]
                 ELSE [summed EXCEPT !.zeroVariances = Append(@, action)])

calculateVarianceStats(countActions) ==
    LET stats == StatsFrom(countActions, 1,
                    [totalActions |-> Len(countActions),
                     totalVariance |-> Num(0),
                     positiveVariances |-> <<>>,
                     negativeVariances |-> <<>>,
                     zeroVariances |-> <<>>])
    IN  [totalActions |-> stats.totalActions,
         totalVariance |-> stats.totalVariance,
         positiveVariances |-> stats.positiveVariances,
         negativeVariances |-> stats.negativeVariances,
         zeroVariances |-> stats.zeroVariances,
         varianceCount |-> Len(stats.positiveVariances) + Len(stats.negativeVariances),
         accuracyPercentage |-> Percent(Len(stats.zeroVariances), stats.totalActions)]

(* The action lists calculateVarianceStats is called with                  *)

MaxActions == 4
MaxVariance == 2

VarianceValues == {Num(v) : v \in (-MaxVariance)..MaxVariance} \cup {Undefined, NaN}

StatsActions == {[variance |-> v, flagged |-> FALSE] : v \in VarianceValues}

StatsInputs == UNION {[1..n -> StatsActions] : n \in 0..MaxActions}

InitStats ==
    /\ call = "none"
    /\ args \in StatsInputs
    /\ result = NoResult
    /\ PipelineEmpty

CallStats ==
    /\ call = "none"
    /\ call' = "calculateVarianceStats"
    /\ result' = calculateVarianceStats(args)
    /\ UNCHANGED <<args, pipeline>>

NextStats == CallStats

SpecStats == InitStats /\ [][NextStats]_vars

-----------------------------------------------------------------------------
(* formatDuration                                                          *)

\* formatDuration with the seconds part not reduced modulo 60
formatDurationSecondsNotReduced(seconds) ==
    LET hours   == seconds \div 3600
        minutes == Rem(seconds, 3600) \div 60
        secs    == seconds
    IN  IF hours > 0
        THEN ToString(Num(hours)) \o <<"h", " ">> \o ToString(Num(minutes))
                \o <<"m", " ">> \o ToString(Num(secs)) \o <<"s">>
        ELSE IF minutes > 0
        THEN ToString(Num(minutes)) \o <<"m", " ">> \o ToString(Num(secs)) \o <<"s">>
        ELSE ToString(Num(secs)) \o <<"s">>

\* Math.floor(x / d) is the floored quotient \div
formatDuration(seconds) ==
    LET hours   == seconds \div 3600
        minutes == Rem(seconds, 3600) \div 60
        secs    == Rem(seconds, 60)
    IN  IF hours > 0
        THEN ToString(Num(hours)) \o <<"h", " ">> \o ToString(Num(minutes))
                \o <<"m", " ">> \o ToString(Num(secs)) \o <<"s">>
        ELSE IF minutes > 0
        THEN ToString(Num(minutes)) \o <<"m", " ">> \o ToString(Num(secs)) \o <<"s">>
        ELSE ToString(Num(secs)) \o <<"s">>

MaxSeconds == 7325

InitFormat ==
    /\ call = "none"
    /\ args \in 0..MaxSeconds
    /\ result = NoResult
    /\ PipelineEmpty

CallFormat ==
    /\ call = "none"
    /\ call' = "formatDuration"
    /\ result' = formatDuration(args)
    /\ UNCHANGED <<args, pipeline>>

NextFormat == CallFormat

SpecFormat == InitFormat /\ [][NextFormat]_vars

-----------------------------------------------------------------------------
(* calculateSessionMetrics; now is what Date.now() returns                 *)

calculateSessionMetrics(session, countActions, now) ==
    LET duration == IF ToBoolean(session.endTime)
                    THEN session.endTime.i - session.startTime
                    ELSE now - session.startTime
        durationSeconds == duration \div 1000
    IN  [sessionId |-> session.sessionId,
         location |-> session.location,
         binsCount |-> Len(session.bins),
         totalPallets |-> session.totalPallets,
         countedPallets |-> Len(countActions),
         completionPercentage |-> Percent(Len(countActions), session.totalPallets),
         durationSeconds |-> durationSeconds,
         durationFormatted |-> formatDuration(durationSeconds),
         varianceCount |-> Len(SelectSeq(countActions, LAMBDA a : StrictNotZero(a.variance))),
         flaggedCount |-> Len(SelectSeq(countActions, LAMBDA a : a.flagged))]

(* The sessions and action lists calculateSessionMetrics is called with    *)

MaxPallets == 3
MaxCounted == 3

MetricsActions ==
    {[variance |-> v, flagged |-> f] : v \in {Num(0), Num(5), Undefined}, f \in BOOLEAN}

StartTimes == {0, 1000}
EndTimes   == {Null, Num(0), Num(4500), Num(3666000)}
NowTimes   == {2500, 127000}

Sessions ==
    {[sessionId |-> "SES-123", location |-> "Area-A", bins |-> <<"A-1", "A-2">>,
      totalPallets |-> t, startTime |-> st, endTime |-> et] :
        t \in 0..MaxPallets, st \in StartTimes, et \in EndTimes}

MetricsInputs ==
    {[session |-> s, countActions |-> a, now |-> n] :
        s \in Sessions,
        a \in UNION {[1..n -> MetricsActions] : n \in 0..MaxCounted},
        n \in NowTimes}

InitMetrics ==
    /\ call = "none"
    /\ args \in MetricsInputs
    /\ result = NoResult
    /\ PipelineEmpty

CallMetrics ==
    /\ call = "none"
    /\ call' = "calculateSessionMetrics"
    /\ result' = calculateSessionMetrics(args.session, args.countActions, args.now)
    /\ UNCHANGED <<args, pipeline>>

NextMetrics == CallMetrics

SpecMetrics == InitMetrics /\ [][NextMetrics]_vars

-----------------------------------------------------------------------------
(* Claims about calculateVarianceStats                                     *)

StatsCalled == call = "calculateVarianceStats"

IntegerVariances(actions) == \A i \in 1..Len(actions) : actions[i].variance.k = "int"

\* the signed sum of the variances of a list whose variances are integers
RECURSIVE SumOfVariances(_)
SumOfVariances(actions) ==
    IF actions = <<>> THEN 0
    ELSE Head(actions).variance.i + SumOfVariances(Tail(actions))

\* C7: for a list of N actions with integer variances the three buckets
\* together hold N = totalActions actions, each bucket holds exactly the
\* actions of its sign, totalVariance is the signed sum of the variances and
\* varianceCount is the size of the positive plus the negative bucket.
C7_VarianceStatsPartition ==
    (StatsCalled /\ IntegerVariances(args)) =>
        /\ Len(result.positiveVariances) + Len(result.negativeVariances)
              + Len(result.zeroVariances) = Len(args)
        /\ result.totalActions = Len(args)
        /\ result.positiveVariances = SelectSeq(args, LAMBDA a : a.variance.i > 0)
        /\ result.negativeVariances = SelectSeq(args, LAMBDA a : a.variance.i < 0)
        /\ result.zeroVariances = SelectSeq(args, LAMBDA a : a.variance.i = 0)
        /\ result.totalVariance = Num(SumOfVariances(args))
        /\ result.varianceCount
              = Len(result.positiveVariances) + Len(result.negativeVariances)

\* C7 witness: a call on integer variances that filled all three buckets
\* and summed to a negative total
C7_Witness ==
    /\ StatsCalled
    /\ IntegerVariances(args)
    /\ Len(result.positiveVariances) >= 1
    /\ Len(result.negativeVariances) >= 1
    /\ Len(result.zeroVariances) >= 1
    /\ result.totalVariance = Num(-1)

\* the text is digits, a point and two digits
IsTwoDecimals(s) ==
    /\ Len(s) >= 4
    /\ s[Len(s) - 2] = "."
    /\ \A i \in (1..Len(s)) \ {Len(s) - 2} : IsDigit(s[i])

\* the number a numeral of digits denotes
RECURSIVE NumeralValue(_)
NumeralValue(s) ==
    IF s = <<>> THEN 0
    ELSE 10 * NumeralValue(SubSeq(s, 1, Len(s) - 1))
            + (CHOOSE d \in 0..9 : DigitChars[d + 1] = s[Len(s)])

\* the hundredths a two-decimal text denotes
HundredthsOf(s) ==
    NumeralValue(SubSeq(s, 1, Len(s) - 3) \o SubSeq(s, Len(s) - 1, Len(s)))

\* s is a / b x 100 to two decimals: within half a hundredth of it
IsPercentOf(s, a, b) ==
    /\ IsTwoDecimals(s)
    /\ 2 * Abs(HundredthsOf(s) * b - 10000 * a) <= b

\* C8: on an empty list accuracyPercentage is not the outcome of 0 / 0, and
\* on a non-empty list it is zeroCount / totalActions x 100 to two decimals.
\* The code divides without a guard and returns "NaN" for the empty list.
C8_AccuracyGuarded ==
    StatsCalled =>
        IF Len(args) = 0
        THEN result.accuracyPercentage # ToString(NaN)
        ELSE IsPercentOf(result.accuracyPercentage,
                         Len(result.zeroVariances), result.totalActions)

(* Claims about calculateSessionMetrics                                    *)

MetricsCalled == call = "calculateSessionMetrics"

\* C9: completionPercentage is actions.length / totalPallets x 100 to two
\* decimals, and with totalPallets = 0 it is a defined value, not the
\* outcome of a division by zero.  The code divides without a guard and
\* returns "NaN" or "Infinity" for totalPallets = 0.
C9_CompletionGuarded ==
    MetricsCalled =>
        IF args.session.totalPallets = 0
        THEN result.completionPercentage \notin {ToString(NaN), ToString(Infinity)}
        ELSE IsPercentOf(result.completionPercentage,
                         Len(args.countActions), args.session.totalPallets)

(* Claims about formatDuration                                             *)

FormatCalled == call = "formatDuration"

\* the text "<n><unit> " of one part that is not the last
DurationPart(n, unit) == NatToString(n) \o <<unit, " ">>

\* C10: for n >= 0 seconds, with h = n div 3600, m = (n mod 3600) div 60 and
\* s = n mod 60, the text is "<h>h <m>m <s>s" without the hours part exactly
\* when h = 0 and without the minutes part exactly when h = 0 and m = 0; the
\* seconds part is always there; 45 gives "45s", 125 gives "2m 5s" and 3665
\* gives "1h 1m 5s".
C10_FormatDuration ==
    FormatCalled =>
        LET h == args \div 3600
            m == (args % 3600) \div 60
            s == args % 60
        IN  /\ result = (IF h = 0 THEN <<>> ELSE DurationPart(h, "h"))
                          \o (IF h = 0 /\ m = 0 THEN <<>> ELSE DurationPart(m, "m"))
                          \o NatToString(s) \o <<"s">>
            /\ (args = 45 => result = <<"4", "5", "s">>)
            /\ (args = 125 => result = <<"2", "m", " ", "5", "s">>)
            /\ (args = 3665 => result = <<"1", "h", " ", "1", "m", " ", "5", "s">>)

\* C10 witness: the call on 3665 seconds, with all three parts
C10_Witness ==
    /\ FormatCalled
    /\ args = 3665
    /\ result = <<"1", "h", " ", "1", "m", " ", "5", "s">>

\* C11: durationSeconds is floor((endTime - startTime) / 1000) whenever the
\* session has an endTime, whatever its value, and floor((now - startTime) /
\* 1000) only when endTime is absent.  The code tests session.endTime for
\* truthiness, so the endTime 0 is taken for absent and the clock is used.
C11_DurationFromEndTime ==
    MetricsCalled =>
        result.durationSeconds
            = IF args.session.endTime.k = "int"
              THEN (args.session.endTime.i - args.session.startTime) \div 1000
              ELSE (args.now - args.session.startTime) \div 1000

\* C17: calculateSessionMetrics and calculateVarianceStats report the same
\* varianceCount for the same list, also when a variance is missing or not a
\* number.  The code counts a missing variance in calculateSessionMetrics
\* (undefined !== 0) and not in calculateVarianceStats (it falls into the
\* zero bucket).
C17_VarianceCountsAgree ==
    MetricsCalled =>
        result.varianceCount = calculateVarianceStats(args.countActions).varianceCount

-----------------------------------------------------------------------------
(* The computed variance of CountActionsSchema                             *)

\* a - b on numbers
Minus(a, b) ==
    LET x == ToNumber(a)
        y == ToNumber(b)
    IN  IF x.k = "int" /\ y.k = "int" THEN Num(x.i - y.i) ELSE NaN

\* the operands exchanged: system - counted
varianceComputedReversed(data) == Minus(data.systemQuantity, data.countedQuantity)

\* computed: (data) => data.countedQuantity - data.systemQuantity
varianceComputed(data) == Minus(data.countedQuantity, data.systemQuantity)

MaxQuantity == 8

VarianceInputs ==
    {[systemQuantity |-> Num(sq), countedQuantity |-> Num(cq)] :
        sq \in (-MaxQuantity)..MaxQuantity, cq \in (-MaxQuantity)..MaxQuantity}

InitVariance ==
    /\ call = "none"
    /\ args \in VarianceInputs
    /\ result = NoResult
    /\ PipelineEmpty

CallVariance ==
    /\ call = "none"
    /\ call' = "variance.computed"
    /\ result' = varianceComputed(args)
    /\ UNCHANGED <<args, pipeline>>

NextVariance == CallVariance

SpecVariance == InitVariance /\ [][NextVariance]_vars

VarianceCalled == call = "variance.computed"

\* C12: for integers system and counted the variance is counted - system;
\* it is positive when counted > system, negative when counted < system
\* and zero when they are equal.
C12_VarianceIsCountedMinusSystem ==
    VarianceCalled =>
        LET system  == args.systemQuantity.i
            counted == args.countedQuantity.i
        IN  /\ result.k = "int"
            /\ result.i + system = counted
            /\ (counted > system => result.i > 0)
            /\ (counted < system => result.i < 0)
            /\ (counted = system => result.i = 0)

\* C12 witness: a count below the system quantity, with a negative variance
C12_Witness ==
    /\ VarianceCalled
    /\ args.countedQuantity = Num(5)
    /\ args.systemQuantity = Num(8)
    /\ result = Num(-3)

-----------------------------------------------------------------------------
(* deduplicateRows applied again                                           *)

\* C18: deduplicateRows applied to the unique output of a call returns that
\* sequence as unique, no duplicates and deduplicationCount 0; the call
\* leaves the input sequence and its rows as they were, the rows of unique
\* are rows of the input, and each rejected row is a copy of an input row
\* with the property reason added.
C18_DedupIdempotent ==
    [][ (call = "none" /\ call' = "deduplicateRows") =>
          LET again == deduplicateRows(result'.unique)
          IN  /\ again.unique = result'.unique
              /\ again.duplicates = <<>>
              /\ again.deduplicationCount = 0
              /\ args' = args
              /\ \A i \in 1..Len(args') : "reason" \notin DOMAIN args'[i]
              /\ \A u \in 1..Len(result'.unique) :
                    \E i \in 1..Len(args) : result'.unique[u] = args[i]
              /\ \A d \in 1..Len(result'.duplicates) :
                    \E i \in 1..Len(args) :
                       /\ DOMAIN result'.duplicates[d] = DOMAIN args[i] \cup {"reason"}
                       /\ result'.duplicates[d]["reason"] = "Duplicate PalletID+Bin"
                       /\ \A c \in DOMAIN args[i] : result'.duplicates[d][c] = args[i][c]
      ]_vars

\* C18 witness: a call that kept two rows and rejected one
C18_Witness ==
    /\ Deduplicated
    /\ Len(result.unique) = 2
    /\ Len(result.duplicates) = 1
    /\ deduplicateRows(result.unique).duplicates = <<>>

-----------------------------------------------------------------------------
(* The reconciliation pipeline: session manager, count recorder and audit  *)
(* logger, over the tables declared by CountSessionsSchema,                *)
(* CountActionsSchema and AuditLogSchema                                   *)

MaxLog == 3
MaxClock == 1
MaxSessions == 1

\* the imported records: PAL-001 and PAL-002 in bin A-1, PAL-003 in bin A-2
Inventory ==
    {[location |-> "Area-A", bin |-> "A-1", palletId |-> "PAL-001",
      itemNumber |-> "SKU-1001", systemQuantity |-> 50],
     [location |-> "Area-A", bin |-> "A-1", palletId |-> "PAL-002",
      itemNumber |-> "SKU-1002", systemQuantity |-> 75],
     [location |-> "Area-A", bin |-> "A-2", palletId |-> "PAL-003",
      itemNumber |-> "SKU-1003", systemQuantity |-> 120]}

\* bins.includes(bin)
Includes(bins, bin) == \E i \in 1..Len(bins) : bins[i] = bin

\* the records of a location, whatever their bin
ScopedByLocationOnly(inventory, location, bins) ==
    {item \in inventory : item.location = location}

\* inventory.filter(item => item.Location === location && bins.includes(item.Bin))
ScopedInventory(inventory, location, bins) ==
    {item \in inventory : item.location = location /\ Includes(bins, item.bin)}

StatusEnum == <<"in-progress", "completed", "submitted">>

Ok(value) == [k |-> "ok", value |-> value]
Failure(kind) == [k |-> "error", error |-> kind]

\* [entry, ...auditLog]: the new entry put first
PrependEntry(entries, newEntry) == <<newEntry>> \o entries

\* [...auditLog, newEntry]
AppendEntry(entries, newEntry) == entries \o <<newEntry>>

\* log(actor, action, sessionId, details) on the log `entries` at time t: a
\* new entry with a fresh id and the current timestamp, at the end
log(entries, t, actor, action, sessionId, details) ==
    AppendEntry(entries,
                [logId |-> Len(entries) + 1,
                 sessionId |-> sessionId,
                 timestamp |-> t,
                 user |-> actor,
                 action |-> action,
                 details |-> details])

\* openSession(location, bins, operatorId, scopedInventory) at time t; id is
\* the fresh session id
openSession(location, bins, operatorId, scopedInventory, t, id) ==
    IF Len(bins) = 0 \/ ~(\E item \in scopedInventory : item.location = location)
    THEN Failure("InvalidScope")
    ELSE Ok([sessionId |-> id,
             timestamp |-> t,
             location |-> location,
             bins |-> bins,
             userId |-> operatorId,
             startTime |-> t,
             endTime |-> Null,
             status |-> StatusEnum[1],
             totalPallets |-> Cardinality(ScopedInventory(scopedInventory, location, bins)),
             completedCount |-> 0,
             varianceCount |-> 0])

\* completeSession that does not look at the status
completeSessionFromAnyStatus(session, t) ==
    Ok([session EXCEPT !.endTime = Num(t), !.status = "completed"])

\* completeSession(session) at time t
completeSession(session, t) ==
    IF session.status = "in-progress"
    THEN Ok([session EXCEPT !.endTime = Num(t), !.status = "completed"])
    ELSE Failure("InvalidTransition")

\* submitSession(session)
submitSession(session) ==
    IF session.status = "completed"
    THEN Ok([session EXCEPT !.status = "submitted"])
    ELSE Failure("InvalidTransition")

Operator == "OPERATOR-001"

Locations == {"Area-A", "Area-B"}
BinChoices == {<<>>, <<"A-1">>}

SessionIds == 1..Len(sessions)

\* the effective count actions of a session, in the order of the table
ActionsOf(id) == SelectSeq(actionsTable, LAMBDA a : a.sessionId = id)

Init ==
    /\ call = "none"
    /\ args = <<>>
    /\ result = NoResult
    /\ PipelineEmpty

\* time passes
Tick ==
    /\ clock < MaxClock
    /\ clock' = clock + 1
    /\ UNCHANGED <<call, args, result, sessions, actionsTable, auditLog>>

OpenSession ==
    \E location \in Locations, bins \in BinChoices :
        LET out == openSession(location, bins, Operator, Inventory,
                               clock, Len(sessions) + 1)
        IN  /\ call' = "openSession"
            /\ args' = [location |-> location, bins |-> bins]
            /\ \/ /\ out.k = "ok"
                  /\ Len(auditLog) < MaxLog
                  /\ Len(sessions) < MaxSessions
                  /\ result' = out
                  /\ sessions' = Append(sessions, out.value)
                  /\ auditLog' = log(auditLog, clock, "SYSTEM", "Session opened",
                                     out.value.sessionId,
                                     [location |-> location, bins |-> bins])
                  /\ UNCHANGED <<actionsTable, clock>>
               \/ /\ out.k = "error"
                  /\ result' = out
                  /\ UNCHANGED pipeline

CompleteSession ==
    \E id \in SessionIds :
        LET out == completeSession(sessions[id], clock)
        IN  /\ call' = "completeSession"
            /\ args' = [sessionId |-> id]
            /\ result' = out
            /\ \/ /\ out.k = "ok"
                  /\ sessions' = [sessions EXCEPT ![id] = out.value]
                  /\ UNCHANGED <<actionsTable, auditLog, clock>>
               \/ /\ out.k = "error"
                  /\ UNCHANGED pipeline

SubmitSession ==
    \E id \in SessionIds :
        LET out == submitSession(sessions[id])
        IN  /\ call' = "submitSession"
            /\ args' = [sessionId |-> id]
            /\ \/ /\ out.k = "ok"
                  /\ Len(auditLog) < MaxLog
                  /\ result' = out
                  /\ sessions' = [sessions EXCEPT ![id] = out.value]
                  /\ auditLog' = log(auditLog, clock, "SYSTEM", "Session submitted", id,
                                     calculateSessionMetrics(out.value, ActionsOf(id), clock))
                  /\ UNCHANGED <<actionsTable, clock>>
               \/ /\ out.k = "error"
                  /\ result' = out
                  /\ UNCHANGED pipeline

\* the failures that apply to a recordCount call; the session must be
\* in-progress, the quantity a non-negative integer, the record in scope
RecordCountErrorsWithoutClosed(session, importRecord, countedQuantity) ==
    {e \in {"InvalidQuantity", "OutOfScope"} :
        \/ e = "InvalidQuantity" /\ countedQuantity < 0
        \/ e = "OutOfScope" /\ (\/ ~Includes(session.bins, importRecord.bin)
                                \/ importRecord.location # session.location)}

RecordCountErrors(session, importRecord, countedQuantity) ==
    {e \in {"InvalidQuantity", "OutOfScope", "SessionClosed"} :
        \/ e = "InvalidQuantity" /\ countedQuantity < 0
        \/ e = "OutOfScope" /\ (\/ ~Includes(session.bins, importRecord.bin)
                                \/ importRecord.location # session.location)
        \/ e = "SessionClosed" /\ session.status # "in-progress"}

\* the effective action of the pallet in the session, if any
HasAction(actions, sessionId, palletId) ==
    \E i \in 1..Len(actions) :
        actions[i].sessionId = sessionId /\ actions[i].palletId = palletId

\* recordCount(session, palletId, importRecord, countedQuantity, operatorId,
\* flaggedByOperator, notes) over the table `actions` at time t; id is the
\* fresh action id.  The outcomes the call can have: any failure that
\* applies, or else the new action, the table with the new action as the
\* effective one of the pallet, and the session with its counters
recordCount(session, actions, palletId, importRecord, countedQuantity, operatorId, flaggedByOperator, t, id) ==
    LET errors == RecordCountErrors(session, importRecord, countedQuantity)
        first == ~HasAction(actions, session.sessionId, palletId)
        variance == varianceComputed([countedQuantity |-> Num(countedQuantity),
                                      systemQuantity |-> Num(importRecord.systemQuantity)])
        action == [actionId |-> id,
                   sessionId |-> session.sessionId,
                   palletId |-> palletId,
                   bin |-> importRecord.bin,
                   itemNumber |-> importRecord.itemNumber,
                   systemQuantity |-> importRecord.systemQuantity,
                   countedQuantity |-> countedQuantity,
                   variance |-> variance,
                   timestamp |-> t,
                   userId |-> operatorId,
                   flagged |-> flaggedByOperator,
                   status |-> IF flaggedByOperator THEN "flagged" ELSE "confirmed"]
        others == SelectSeq(actions,
                            LAMBDA a : ~(a.sessionId = session.sessionId
                                         /\ a.palletId = palletId))
    IN  IF errors # {}
        THEN {Failure(e) : e \in errors}
        ELSE {Ok([action |-> action,
                  actions |-> Append(others, action),
                  session |-> [session EXCEPT
                      !.completedCount = IF first THEN @ + 1 ELSE @,
                      !.varianceCount = IF first /\ StrictNotZero(variance)
                                        THEN @ + 1 ELSE @]])}

ImportRecord(palletId) == CHOOSE item \in Inventory : item.palletId = palletId

\* the counts an operator enters: exact, short, flagged, negative, and one
\* for a pallet of another bin
CountInputs ==
    {[importRecord |-> ImportRecord("PAL-001"), countedQuantity |-> 50,
      flaggedByOperator |-> FALSE],
     [importRecord |-> ImportRecord("PAL-001"), countedQuantity |-> 40,
      flaggedByOperator |-> FALSE],
     [importRecord |-> ImportRecord("PAL-002"), countedQuantity |-> 50,
      flaggedByOperator |-> TRUE],
     [importRecord |-> ImportRecord("PAL-002"), countedQuantity |-> -1,
      flaggedByOperator |-> FALSE],
     [importRecord |-> ImportRecord("PAL-003"), countedQuantity |-> 50,
      flaggedByOperator |-> FALSE]}

RecordCount ==
    \E id \in SessionIds, input \in CountInputs :
        \E out \in recordCount(sessions[id], actionsTable, input.importRecord.palletId,
                               input.importRecord, input.countedQuantity, Operator,
                               input.flaggedByOperator, clock, Len(auditLog) + 1) :
            /\ call' = "recordCount"
            /\ args' = [sessionId |-> id,
                        importRecord |-> input.importRecord,
                        countedQuantity |-> input.countedQuantity,
                        flaggedByOperator |-> input.flaggedByOperator]
            /\ \/ /\ out.k = "ok"
                  /\ Len(auditLog) < MaxLog
                  /\ result' = out
                  /\ sessions' = [sessions EXCEPT ![id] = out.value.session]
                  /\ actionsTable' = out.value.actions
                  /\ auditLog' = log(auditLog, clock, "USER", "Pallet counted", id,
                                     [pallet_id |-> input.importRecord.palletId,
                                      bin |-> input.importRecord.bin,
                                      system_qty |-> input.importRecord.systemQuantity,
                                      counted_qty |-> input.countedQuantity,
                                      variance |-> out.value.action.variance])
                  /\ UNCHANGED clock
               \/ /\ out.k = "error"
                  /\ result' = out
                  /\ UNCHANGED pipeline

Next ==
    \/ Tick
    \/ OpenSession
    \/ CompleteSession
    \/ SubmitSession
    \/ RecordCount

Spec == Init /\ [][Next]_vars

-----------------------------------------------------------------------------
(* Claims about the pipeline                                               *)

\* the step is a call of the operation op (time stands still during a call)
Called(op) == call' = op /\ clock' = clock

Rank(status) == CHOOSE i \in 1..Len(StatusEnum) : StatusEnum[i] = status

\* C13: over any sequence of openSession, completeSession and submitSession
\* calls a session's status only moves forward along in-progress ->
\* completed -> submitted: completeSession succeeds only from in-progress,
\* submitSession succeeds only from completed and fails with
\* InvalidTransition on a session still in-progress, a new session starts
\* in-progress, and no step moves a session to an earlier status or removes
\* a session.
C13_StatusOnlyForward ==
    [][/\ Len(sessions') >= Len(sessions)
       /\ \A id \in 1..Len(sessions) :
              Rank(sessions'[id].status) >= Rank(sessions[id].status)
       /\ \A id \in (Len(sessions) + 1)..Len(sessions') :
              sessions'[id].status = "in-progress"
       /\ (Called("completeSession") /\ result'.k = "ok")
              => /\ sessions[args'.sessionId].status = "in-progress"
                 /\ sessions'[args'.sessionId].status = "completed"
       /\ (Called("submitSession") /\ result'.k = "ok")
              => /\ sessions[args'.sessionId].status = "completed"
                 /\ sessions'[args'.sessionId].status = "submitted"
       /\ (Called("submitSession")
             /\ sessions[args'.sessionId].status = "in-progress")
              => /\ result' = [k |-> "error", error |-> "InvalidTransition"]
                 /\ sessions' = sessions
       /\ (Called("completeSession")
             /\ sessions[args'.sessionId].status # "in-progress")
              => /\ result' = [k |-> "error", error |-> "InvalidTransition"]
                 /\ sessions' = sessions
      ]_vars

\* a session has gone all the way to submitted
C13_Witness ==
    /\ call = "submitSession"
    /\ result.k = "ok"
    /\ sessions[args.sessionId].status = "submitted"
    /\ sessions[args.sessionId].endTime # Null

\* C14: a session's totalPallets is fixed when openSession creates it, as
\* the number of import records matching the session's location and bins,
\* and no later recordCount, completeSession or submitSession changes it,
\* even as completedCount grows.
C14_TotalPalletsFixed ==
    [][/\ \A id \in 1..Len(sessions) :
              /\ id <= Len(sessions')
              /\ sessions'[id].totalPallets = sessions[id].totalPallets
       /\ (Called("openSession") /\ result'.k = "ok")
              => /\ Len(sessions') = Len(sessions) + 1
                 /\ sessions'[Len(sessions')].totalPallets
                      = Cardinality({item \in Inventory :
                            /\ item.location = args'.location
                            /\ \E i \in 1..Len(args'.bins) : args'.bins[i] = item.bin})
      ]_vars

\* both pallets of the scope have been counted, and totalPallets is still 2
C14_Witness ==
    /\ call = "recordCount"
    /\ result.k = "ok"
    /\ sessions[args.sessionId].completedCount = 2
    /\ sessions[args.sessionId].totalPallets = 2

ClosedBefore == sessions[args'.sessionId].status # "in-progress"

C16_AuditLogAppendOnly ==
    /\ [][/\ Len(auditLog') >= Len(auditLog)
          /\ \A i \in 1..Len(auditLog) : auditLog'[i] = auditLog[i]
         ]_vars
    /\ [](\A i, j \in 1..Len(auditLog) :
              i <= j => auditLog[i].timestamp <= auditLog[j].timestamp)

\* three entries of three kinds, written at different times
C16_Witness ==
    /\ Len(auditLog) = 3
    /\ auditLog[1].user = "SYSTEM"
    /\ auditLog[2].user = "USER"
    /\ auditLog[3].action = "Session submitted"
    /\ auditLog[1].timestamp < auditLog[3].timestamp

=============================================================================
